---- MODULE Spec2Model ----
(***************************************************************************)
(* wbor-twilio (src/app.py): the acknowledgment barrier of the /sms        *)
(* webhook (receive_sms, groupme_acknowledge, the Redis ack store), the    *)
(* bus publisher (publish_to_exchange) and the outgoing SMS consumer       *)
(* (start_outgoing_message_consumer, process_outgoing_sms_message).        *)
(*                                                                         *)
(* Spec         : ingress handler + publish thread + /acknowledge callers  *)
(*                + wall clock (one gunicorn worker, other workers serve   *)
(*                /acknowledge).                                           *)
(* PairSpec     : two ingress handlers served concurrently, their publish  *)
(*                threads and the /acknowledge calls for their ids.        *)
(* FairSpec     : Spec with the scheduling fairness of threads and clock.  *)
(* ConsumerSpec : the outgoing consumer thread and its broker queue.       *)
(* FairConsumerSpec : ConsumerSpec over NumLoopMsgs messages, with the      *)
(*                fairness of the consumer thread's reconnect steps.        *)
(* PublishSpec  : one call of publish_to_exchange, step by step, with the   *)
(*                message it hands to the exchange.                         *)
(***************************************************************************)
EXTENDS Integers, Sequences, FiniteSets, TLC

---------------------------------------------------------------------------
(* Bounds of the model *)

\* ack-wait deadline and ack-record time-to-live, in clock ticks (config value)
REDIS_ACK_EXPIRATION_S == 2
\* the clock stops at MaxTime unless a wait still needs it to reach its deadline
MaxTime == 2
\* number of inbound SMS requests (fresh uuid4 correlation ids 1..NumIds)
NumIds == 2
\* number of /acknowledge calls made by downstream (each caller calls once)
NumCallers == 2

Ids == 1..NumIds
\* an id that receive_sms never generated (a forged or stale /acknowledge)
BogusId == 0
Keys == Ids \cup {BogusId}
Callers == 1..NumCallers
\* store value of an absent key (redis nil)
NoKey == -1
\* number of messages published to the outgoing queue
NumMsgs == 2
\* how often send_sms may run for one message before its disposition arrives
MaxSends == 2
\* number of messages in the queue while the reconnect loop is followed
NumLoopMsgs == 1
\* largest number of fields of a published payload
MaxFields == 2
Tags == 1..NumMsgs

VARIABLES
    now,        \* wall clock, datetime.now()
    alive,      \* the worker process is running (FALSE after os._exit)
    ackStore,   \* redis: key -> expiry time of the key, or NoKey
    nextId,     \* next fresh uuid4
    req,        \* per correlation id: the receive_sms request thread
    pub,        \* per correlation id: the Thread running publish_to_exchange
    bus,        \* ids of the sms.incoming messages that reached the exchange
    ack,        \* per caller: the groupme_acknowledge request
    cons,       \* the consumer thread of start_outgoing_message_consumer
    queue,      \* broker: delivery tags ready in OUTGOING_QUEUE, in order
    unacked,    \* broker: tags delivered on the consumer's channel, unsettled
    msgs,       \* broker: tag -> the message published under that tag
    log,        \* per tag: what the consumer did with the message
    call,       \* the call of publish_to_exchange that is followed step by step
    exchange    \* broker: the messages basic_publish handed to the exchange

ackVars == <<now, ackStore, nextId, req, pub, bus, ack>>
consVars == <<cons, queue, unacked, msgs, log>>
callVars == <<call, exchange>>
vars == <<alive, ackVars, consVars, callVars>>

---------------------------------------------------------------------------
(* Acknowledgment store: utils.redis over a shared Redis *)

\* redis_client.get(key): truthy iff the key is present (expired keys are gone)
redis_get(s, k) == s[k] # NoKey

\* utils.redis.set_ack_event: SET key with ex=REDIS_ACK_EXPIRATION_S
set_ack_event(s, k, t) == [s EXCEPT ![k] = t + REDIS_ACK_EXPIRATION_S]

\* utils.redis.get_ack_event
get_ack_event(s, k) == redis_get(s, k)

\* utils.redis.delete_ack_event: DEL key, a no-op on an absent key
delete_ack_event(s, k) == [s EXCEPT ![k] = NoKey]

\* Redis key expiry at time t: every key whose time-to-live has run out is gone
expire(s, t) == [k \in Keys |-> IF s[k] # NoKey /\ s[k] <= t THEN NoKey ELSE s[k]]


---------------------------------------------------------------------------
(* Inbound webhook bridge: receive_sms *)

\* (datetime.now() - start_time).seconds
ElapsedSeconds(t, s) == (t - s) % 86400

\* the wait of c has begun and its deadline has elapsed on the wall clock
DeadlineElapsed(c) ==
    /\ req[c].pc \in {"check", "poll", "timeout", "done"}
    /\ now - req[c].start >= REDIS_ACK_EXPIRATION_S

\* while-condition of the poll loop
WaitGoesOnForever(c) == TRUE
WaitGoesOn(c) == ElapsedSeconds(now, req[c].start) < REDIS_ACK_EXPIRATION_S

\* `if not ack_status`: a poll that finds no record ends the wait with success
PollSeesAckInverted(status) == status
PollSeesAck(status) == ~status

\* the store after the cleanup of the timeout path
TimeoutCleanupRefresh(s, k) == set_ack_event(s, k, now)
TimeoutCleanup(s, k) == delete_ack_event(s, k)

\* message_id = str(uuid4()); set_ack_event(message_id)
receive_sms_create_unrecorded(c) ==
    /\ alive
    /\ c = nextId
    /\ req[c].pc = "idle"
    /\ nextId' = nextId + 1
    /\ req' = [req EXCEPT ![c].pc = "lookup"]
    /\ UNCHANGED <<now, alive, ackStore, pub, bus, ack, consVars, callVars>>
receive_sms_create(c) ==
    /\ alive
    /\ c = nextId
    /\ req[c].pc = "idle"
    /\ ackStore' = set_ack_event(ackStore, c, now)
    /\ nextId' = nextId + 1
    /\ req' = [req EXCEPT ![c].pc = "lookup"]
    /\ UNCHANGED <<now, alive, pub, bus, ack, consVars, callVars>>

\* fetch_sender(...), then Thread(target=publish_to_exchange, ...).start()
receive_sms_start_thread(c) ==
    /\ alive
    /\ req[c].pc = "lookup"
    /\ req' = [req EXCEPT ![c].pc = "start"]
    /\ pub' = [pub EXCEPT ![c].pc = "running"]
    /\ UNCHANGED <<now, alive, ackStore, nextId, bus, ack, consVars, callVars>>

\* start_time = datetime.now()
receive_sms_start_wait(c) ==
    /\ alive
    /\ req[c].pc = "start"
    /\ req' = [req EXCEPT ![c].pc = "check", ![c].start = now]
    /\ UNCHANGED <<now, alive, ackStore, nextId, pub, bus, ack, consVars, callVars>>

\* while (datetime.now() - start_time).seconds < REDIS_ACK_EXPIRATION_S,
\* and on leaving the loop the "Timeout met" log line
receive_sms_loop_check(c) ==
    /\ alive
    /\ req[c].pc = "check"
    /\ req' = IF WaitGoesOn(c)
              THEN [req EXCEPT ![c].pc = "poll"]
              ELSE [req EXCEPT ![c].pc = "timeout", ![c].out = "TIMED_OUT"]
    /\ UNCHANGED <<now, alive, ackStore, nextId, pub, bus, ack, consVars, callVars>>

\* ack_status = redis_client.get(message_id); if not ack_status: return str(resp)
receive_sms_poll(c) ==
    /\ alive
    /\ req[c].pc = "poll"
    /\ LET status == redis_get(ackStore, c) IN
       req' = IF PollSeesAck(status)
              THEN [req EXCEPT ![c].pc = "done", ![c].ack_status = status,
                               ![c].out = "COMPLETED", ![c].resp = "twiml"]
              ELSE [req EXCEPT ![c].pc = "check", ![c].ack_status = status]
    /\ UNCHANGED <<now, alive, ackStore, nextId, pub, bus, ack, consVars, callVars>>

\* delete_ack_event(message_id); return "Failed to process message", 500
receive_sms_timeout(c) ==
    /\ alive
    /\ req[c].pc = "timeout"
    /\ ackStore' = TimeoutCleanup(ackStore, c)
    /\ req' = [req EXCEPT ![c].pc = "done", ![c].resp = "500"]
    /\ UNCHANGED <<now, alive, nextId, pub, bus, ack, consVars, callVars>>


---------------------------------------------------------------------------
(* Bus publisher: publish_to_exchange, run in the Thread of receive_sms *)

\* AMQPConnectionError messages told apart by the handler:
\* CONNECTION_FORCED ... shutdown, ACCESS_REFUSED, anything else
ConnErrors == {"forced", "refused", "other"}

\* where a call of publish_to_exchange can fail, and how: the connection
\* errors at BlockingConnection, exchange_declare or basic_publish, the
\* channel errors at exchange_declare or basic_publish
PublishFaults ==
    ({"connect", "declare", "publish"} \X ConnErrors)
    \cup ({"declare", "publish"} \X {"chan"})

PubIdle == [pc |-> "none", opened |-> 0, declared |-> 0, published |-> 0,
            closed |-> 0]

\* the calls made before the fault at `stage` (all of them without a fault)
PubProgress(p, stage) ==
    [p EXCEPT !.opened = IF stage = "connect" THEN 0 ELSE 1,
              !.declared = IF stage \in {"connect", "declare"} THEN 0 ELSE 1,
              !.published = IF stage = "done" THEN 1 ELSE 0]

\* except AMQPConnectionError: sys.exit(1) on a forced shutdown (SystemExit
\* raised in a Thread ends that thread only), terminate() in every other case
\* (the ACCESS_REFUSED branch only logs, terminate() follows it unconditionally)
publish_on_conn_error(c, p, kind) ==
    IF kind = "forced"
    THEN /\ pub' = [pub EXCEPT ![c] = [p EXCEPT !.pc = "exited"]]
         /\ UNCHANGED alive
    ELSE /\ pub' = [pub EXCEPT ![c] = [p EXCEPT !.pc = "killed"]]
         /\ alive' = FALSE

\* except AMQPChannelError: logged and swallowed; connection.close() is skipped
publish_on_chan_error(c, p) ==
    /\ pub' = [pub EXCEPT ![c] = [p EXCEPT !.pc = "lost"]]
    /\ UNCHANGED alive

\* one run of publish_to_exchange in its thread: connect, exchange_declare,
\* basic_publish (the message reaches the exchange), connection.close()
publish_to_exchange(c) ==
    /\ alive
    /\ pub[c].pc = "running"
    /\ pub' = [pub EXCEPT ![c] = [PubProgress(pub[c], "done") EXCEPT
                                    !.pc = "done", !.closed = 1]]
    /\ bus' = bus \cup {c}
    /\ UNCHANGED <<alive, now, ackStore, nextId, req, ack, consVars, callVars>>

\* a run of publish_to_exchange that raises at fault[1] the error fault[2]
publish_to_exchange_fails(c, fault) ==
    /\ alive
    /\ pub[c].pc = "running"
    /\ IF fault[2] = "chan"
       THEN publish_on_chan_error(c, PubProgress(pub[c], fault[1]))
       ELSE publish_on_conn_error(c, PubProgress(pub[c], fault[1]), fault[2])
    /\ UNCHANGED <<now, ackStore, nextId, req, bus, ack, consVars, callVars>>

---------------------------------------------------------------------------
(* Acknowledgment intake: POST /acknowledge, served by any worker process *)

\* request.json of a call: json = FALSE is an empty/absent body,
\* id = NoKey a body without the wbor_message_id field
AckData == {[json |-> FALSE, id |-> NoKey]}
           \cup {[json |-> TRUE, id |-> k] : k \in Keys \cup {NoKey}}

\* `if not ack_data or "wbor_message_id" not in ack_data`
AckMalformed(d) == ~d.json \/ d.id = NoKey

\* `if get_ack_event(message_id)`: the record is there, go on to delete it
AckFoundInverted(s, k) == ~get_ack_event(s, k)
AckFound(s, k) == get_ack_event(s, k)

\* the store after delete_ack_event(message_id) of the 200 path
AckDeleteSkipped(s, k) == s
AckDeleteEvery(s, k) == [j \in Keys |-> NoKey]
AckDelete(s, k) == delete_ack_event(s, k)

\* the uuid4 of a request is known outside receive_sms only from the message
\* on the bus; BogusId stands for every id that was never generated
IdKnown(k) == k = BogusId \/ k \in bus

\* entry of groupme_acknowledge up to the check of the record
groupme_acknowledge(a, d) ==
    /\ alive
    /\ ack[a].pc = "idle"
    /\ \A b \in Callers : b < a => ack[b].pc # "idle"
    /\ d.id \in Keys => IdKnown(d.id)
    /\ LET early == d.id \in Ids /\ ~DeadlineElapsed(d.id)
           late  == d.id \in Ids /\ req[d.id].pc = "done"
           seq   == \E b \in Callers : ack[b].pc = "done" /\ ack[b].id = d.id
                                       /\ d.id # NoKey
           base  == [ack[a] EXCEPT !.id = d.id, !.early = early,
                                   !.late = late, !.seq = seq,
                                   !.saw = d.id \in Keys /\ redis_get(ackStore, d.id)]
       IN  ack' = [ack EXCEPT ![a] =
             IF AckMalformed(d)
             THEN [base EXCEPT !.pc = "done", !.res = 400]
             ELSE IF AckFound(ackStore, d.id)
             THEN [base EXCEPT !.pc = "found"]
             ELSE [base EXCEPT !.pc = "done", !.res = 404,
                               !.retEarly = early]]
    /\ UNCHANGED <<alive, now, ackStore, nextId, req, pub, bus, consVars, callVars>>

\* delete_ack_event(message_id); return "Acknowledgment received", 200
groupme_acknowledge_delete(a) ==
    /\ ack[a].pc = "found"
    /\ ackStore' = AckDelete(ackStore, ack[a].id)
    /\ ack' = [ack EXCEPT ![a].pc = "done", ![a].res = 200, ![a].del = TRUE,
                          ![a].retEarly = ack[a].id \in Ids /\ ~DeadlineElapsed(ack[a].id)]
    /\ UNCHANGED <<alive, now, nextId, req, pub, bus, consVars, callVars>>

---------------------------------------------------------------------------
(* Wall clock *)

\* a wait whose deadline the clock has not reached yet
Waiting(c) ==
    /\ req[c].pc \in {"check", "poll"}
    /\ now - req[c].start < REDIS_ACK_EXPIRATION_S

\* one tick of the wall clock; Redis drops the keys whose time-to-live ran out
Tick ==
    /\ now < MaxTime \/ (alive /\ \E c \in Ids : Waiting(c))
    /\ now' = now + 1
    /\ ackStore' = expire(ackStore, now + 1)
    /\ UNCHANGED <<alive, nextId, req, pub, bus, ack, consVars, callVars>>


---------------------------------------------------------------------------
(* Outbound consumer: broker side *)

SMS_OUTGOING_KEY == "source.twilio.sms.outgoing"
\* a routing key under which another binding of the queue delivers
OtherKey == "source.twilio.sms.incoming"
RoutingKeys == {SMS_OUTGOING_KEY, OtherKey}

\* shapes of a message body, as process_outgoing_sms_message tells them apart:
\* a complete envelope, one over TWILIO_CHARACTER_LIMIT, one without
\* recipient_number, one without body, bytes that are no JSON, and JSON that
\* is no object (message.get raises AttributeError)
Bodies == {"valid", "too_long", "no_recipient", "no_body", "bad_json",
           "not_object"}

\* channel.basic_qos(prefetch_count=1)
PrefetchCount == 1

Remove(seq, x) == SelectSeq(seq, LAMBDA y : y # x)

\* a producer publishes a message that is routed to OUTGOING_QUEUE (the body
\* of a message under another key is never read: one body stands for all)
broker_enqueue(key, body) ==
    /\ Len(msgs) < NumMsgs
    /\ key # SMS_OUTGOING_KEY => body = "valid"
    /\ msgs' = Append(msgs, [key |-> key, body |-> body])
    /\ queue' = Append(queue, Len(msgs) + 1)
    /\ UNCHANGED <<alive, ackVars, callVars, cons, unacked, log>>

\* the broker pushes the head of the queue to the consumer, as far as the
\* channel's prefetch allows (0: no limit was set)
broker_deliver ==
    /\ cons.consuming
    /\ queue # <<>>
    /\ cons.qos = 0 \/ Len(unacked) < cons.qos
    /\ unacked' = Append(unacked, Head(queue))
    /\ queue' = Tail(queue)
    /\ log' = [log EXCEPT ![Head(queue)].delivered = TRUE,
                          ![Head(queue)].redelivered = log[Head(queue)].delivered]
    /\ UNCHANGED <<alive, ackVars, callVars, cons, msgs>>

\* the broker requeues what a closed channel left unsettled
Requeued == unacked \o queue

---------------------------------------------------------------------------
(* Outbound consumer: consumer_thread of start_outgoing_message_consumer *)

ConsIdle == [pc |-> "connect", conn |-> FALSE, chan |-> FALSE, qos |-> 0,
             exch |-> FALSE, qdecl |-> FALSE, bound |-> FALSE,
             consuming |-> FALSE, cur |-> 0, then |-> "loop", err |-> "none"]

\* except AMQPConnectionError: sys.exit(1) on a forced shutdown (SystemExit
\* passes the finally block and ends the thread), terminate() on
\* ACCESS_REFUSED, otherwise fall to the finally block and loop
consumer_on_conn_error(c, kind) ==
    CASE kind = "forced"  -> /\ cons' = [c EXCEPT !.pc = "finally", !.then = "die",
                                                   !.err = kind]
                             /\ UNCHANGED alive
      [] kind = "refused" -> /\ cons' = [c EXCEPT !.pc = "killed", !.err = kind]
                             /\ alive' = FALSE
      [] OTHER            -> /\ cons' = [c EXCEPT !.pc = "finally", !.then = "loop",
                                                   !.err = kind]
                             /\ UNCHANGED alive

\* an exception that consumer_thread does not catch: the finally block runs
\* and the exception ends the thread
consumer_uncaught(c) ==
    /\ cons' = [c EXCEPT !.pc = "finally", !.then = "die", !.err = "uncaught"]
    /\ UNCHANGED alive

\* the consumer's view after its connection dropped
ConnLost(c) == [c EXCEPT !.conn = FALSE, !.chan = FALSE, !.consuming = FALSE]

\* connection = pika.BlockingConnection(parameters); connection.channel()
consumer_connect(o) ==
    /\ alive
    /\ cons.pc = "connect"
    /\ CASE o = "ok" -> /\ cons' = [ConsIdle EXCEPT !.pc = "exchange",
                                       !.conn = TRUE, !.chan = TRUE]
                        /\ UNCHANGED alive
         [] o \in ConnErrors -> consumer_on_conn_error(cons, o)
    /\ UNCHANGED <<ackVars, callVars, queue, unacked, msgs, log>>

\* channel.exchange_declare(...)
consumer_exchange_declare(o) ==
    /\ alive
    /\ cons.pc = "exchange"
    /\ CASE o = "ok" -> /\ cons' = [cons EXCEPT !.pc = "queue", !.exch = TRUE]
                        /\ UNCHANGED alive
         [] o = "chan" -> consumer_uncaught([cons EXCEPT !.chan = FALSE])
         [] o \in ConnErrors -> consumer_on_conn_error(ConnLost(cons), o)
    /\ UNCHANGED <<ackVars, callVars, queue, unacked, msgs, log>>

\* except ChannelClosedByBroker with "inequivalent arg" in its text: terminate()
consumer_on_inequivalent_swallowed(c) ==
    /\ cons' = [c EXCEPT !.pc = "qos", !.chan = FALSE, !.err = "inequivalent"]
    /\ UNCHANGED alive
consumer_on_inequivalent(c) ==
    /\ cons' = [c EXCEPT !.pc = "killed", !.chan = FALSE, !.err = "inequivalent"]
    /\ alive' = FALSE

\* channel.queue_declare(queue=OUTGOING_QUEUE, durable=True) and its
\* except ChannelClosedByBroker: terminate() on "inequivalent arg", any other
\* closure is swallowed and the thread goes on to basic_qos
consumer_queue_declare(o) ==
    /\ alive
    /\ cons.pc = "queue"
    /\ CASE o = "ok" -> /\ cons' = [cons EXCEPT !.pc = "bind", !.qdecl = TRUE]
                        /\ UNCHANGED alive
         [] o = "inequivalent" -> consumer_on_inequivalent(cons)
         [] o = "closed" -> /\ cons' = [cons EXCEPT !.pc = "qos", !.chan = FALSE]
                            /\ UNCHANGED alive
         [] o \in ConnErrors -> consumer_on_conn_error(ConnLost(cons), o)
    /\ UNCHANGED <<ackVars, callVars, queue, unacked, msgs, log>>

\* the pass goes on to basic_qos with the queue left unbound
consumer_queue_bind_skipped(o) ==
    /\ alive
    /\ cons.pc = "bind"
    /\ o = "ok"
    /\ cons' = [cons EXCEPT !.pc = "qos"]
    /\ UNCHANGED <<alive, ackVars, callVars, queue, unacked, msgs, log>>

\* channel.queue_bind(..., routing_key=SMS_OUTGOING_KEY)
consumer_queue_bind(o) ==
    /\ alive
    /\ cons.pc = "bind"
    /\ CASE o = "ok" -> /\ cons' = [cons EXCEPT !.pc = "qos", !.bound = TRUE]
                        /\ UNCHANGED alive
         [] o = "closed" -> /\ cons' = [cons EXCEPT !.pc = "qos", !.chan = FALSE]
                            /\ UNCHANGED alive
         [] o \in ConnErrors -> consumer_on_conn_error(ConnLost(cons), o)
    /\ UNCHANGED <<ackVars, callVars, queue, unacked, msgs, log>>

\* channel.basic_qos(prefetch_count=1); on a channel the broker closed pika
\* raises ChannelWrongStateError, an AMQPChannelError nobody catches
consumer_basic_qos_omitted ==
    /\ alive
    /\ cons.pc = "qos"
    /\ IF cons.chan
       THEN /\ cons' = [cons EXCEPT !.pc = "consume"]
            /\ UNCHANGED alive
       ELSE consumer_uncaught(cons)
    /\ UNCHANGED <<ackVars, callVars, queue, unacked, msgs, log>>
consumer_basic_qos ==
    /\ alive
    /\ cons.pc = "qos"
    /\ IF cons.chan
       THEN /\ cons' = [cons EXCEPT !.pc = "consume", !.qos = PrefetchCount]
            /\ UNCHANGED alive
       ELSE consumer_uncaught(cons)
    /\ UNCHANGED <<ackVars, callVars, queue, unacked, msgs, log>>

\* channel.basic_consume(...); channel.start_consuming()
consumer_basic_consume ==
    /\ alive
    /\ cons.pc = "consume"
    /\ cons' = [cons EXCEPT !.pc = "consuming", !.consuming = TRUE]
    /\ UNCHANGED <<alive, ackVars, callVars, queue, unacked, msgs, log>>

\* start_consuming() raises AMQPConnectionError: the connection dropped and
\* the broker requeues what was unsettled
consumer_conn_lost(kind) ==
    /\ alive
    /\ cons.pc = "consuming"
    /\ consumer_on_conn_error(ConnLost(cons), kind)
    /\ queue' = Requeued
    /\ unacked' = <<>>
    /\ UNCHANGED <<ackVars, callVars, msgs, log>>

\* the finally block, were the thread to end after it on every path
consumer_finally_ends ==
    /\ alive
    /\ cons.pc = "finally"
    /\ cons' = [ConnLost(cons) EXCEPT !.pc = "dead", !.cur = 0]
    /\ queue' = IF cons.conn THEN Requeued ELSE queue
    /\ unacked' = IF cons.conn THEN <<>> ELSE unacked
    /\ UNCHANGED <<alive, ackVars, callVars, msgs, log>>

\* finally: if connection.is_open: connection.close(); then the next pass of
\* `while True`, or the end of the thread when an exception is propagating
consumer_finally ==
    /\ alive
    /\ cons.pc = "finally"
    /\ cons' = [ConnLost(cons) EXCEPT
                  !.pc = IF cons.then = "loop" THEN "connect" ELSE "dead",
                  !.cur = 0]
    /\ queue' = IF cons.conn THEN Requeued ELSE queue
    /\ unacked' = IF cons.conn THEN <<>> ELSE unacked
    /\ UNCHANGED <<alive, ackVars, callVars, msgs, log>>


---------------------------------------------------------------------------
(* Outbound consumer: process_outgoing_sms_message and send_sms *)

\* outcomes of twilio_client.messages.create: a message sid, a
\* TwilioRestException, or any other exception (send_sms lets it through)
TwilioOutcomes == {"sid", "rest_error", "crash"}

\* `if method.routing_key != SMS_OUTGOING_KEY`: discard the message
KeyMismatchIgnored(key) == FALSE
KeyMismatch(key) == key # SMS_OUTGOING_KEY

\* channel.basic_ack(delivery_tag): the broker drops the message
basic_ack(tag) ==
    /\ unacked' = Remove(unacked, tag)
    /\ queue' = queue
    /\ log' = [log EXCEPT ![tag].acks = @ + 1]

\* channel.basic_nack(delivery_tag, requeue): the broker drops the message,
\* or puts it back at the head of the queue when requeue is set
basic_nack(tag, requeue) ==
    /\ unacked' = Remove(unacked, tag)
    /\ queue' = IF requeue THEN <<tag>> \o queue ELSE queue
    /\ log' = [log EXCEPT ![tag].nacks = @ + 1,
                          ![tag].requeue = @ \/ requeue]

\* what channel.basic_ack / channel.basic_nack meet: the broker takes the
\* disposition, or the connection is gone and pika raises the
\* AMQPConnectionError out of the callback and out of start_consuming()
SettleOutcomes == {"ok"} \cup ConnErrors

\* the disposition never reached the broker: the delivery stays unsettled, the
\* broker requeues it, and consumer_thread handles the connection error
settle_conn_lost(kind, lg) ==
    /\ consumer_on_conn_error([ConnLost(cons) EXCEPT !.cur = 0], kind)
    /\ queue' = Requeued
    /\ unacked' = <<>>
    /\ log' = lg

\* the callback starts on the oldest delivery and validates its routing key
process_check_key(s) ==
    /\ alive
    /\ cons.pc = "consuming"
    /\ unacked # <<>>
    /\ LET tag == Head(unacked) IN
       IF KeyMismatch(msgs[tag].key)
       THEN IF s = "ok"
            THEN /\ basic_nack(tag, FALSE)
                 /\ UNCHANGED <<alive, cons>>
            ELSE settle_conn_lost(s, log)
       ELSE /\ s = "ok"
            /\ cons' = [cons EXCEPT !.pc = "parse", !.cur = tag]
            /\ UNCHANGED <<alive, queue, unacked, log>>
    /\ UNCHANGED <<ackVars, callVars, msgs>>

\* json.loads(body) and the checks of recipient_number and body
process_parse(s) ==
    /\ alive
    /\ cons.pc = "parse"
    /\ LET tag  == cons.cur
           body == msgs[tag].body
           seen == [log EXCEPT ![tag].parsed = TRUE]
       IN  CASE body \in {"bad_json", "no_recipient", "no_body"} ->
                  IF s = "ok"
                  THEN /\ unacked' = Remove(unacked, tag)
                       /\ log' = [seen EXCEPT ![tag].nacks = @ + 1]
                       /\ cons' = [cons EXCEPT !.pc = "consuming", !.cur = 0]
                       /\ UNCHANGED <<alive, queue>>
                  ELSE settle_conn_lost(s, seen)
             [] body = "not_object" ->
                  /\ s = "ok"
                  /\ consumer_uncaught(cons)
                  /\ log' = seen
                  /\ UNCHANGED <<queue, unacked>>
             [] OTHER ->
                  /\ s = "ok"
                  /\ cons' = [cons EXCEPT !.pc = "send"]
                  /\ log' = seen
                  /\ UNCHANGED <<alive, queue, unacked>>
    /\ UNCHANGED <<ackVars, callVars, msgs>>

\* msg_sid = send_sms(...), then basic_ack on a sid and basic_nack otherwise;
\* the ValueError of an over-long body is caught and the message rejected
process_send(o, s) ==
    /\ alive
    /\ cons.pc = "send"
    /\ LET tag  == cons.cur
           more == log[tag].sms_calls + 1 < MaxSends
           sent == [log EXCEPT ![tag].sms_calls = @ + 1, ![tag].twilio = @ + 1]
       IN
       IF msgs[tag].body = "too_long"
       THEN IF s = "ok"
            THEN /\ unacked' = Remove(unacked, tag)
                 /\ log' = [log EXCEPT ![tag].sms_calls = @ + 1,
                                       ![tag].nacks = @ + 1]
                 /\ cons' = [cons EXCEPT !.pc = "consuming", !.cur = 0]
                 /\ UNCHANGED <<alive, queue>>
            ELSE /\ more
                 /\ settle_conn_lost(s, [log EXCEPT ![tag].sms_calls = @ + 1])
       ELSE CASE o = "sid" ->
                   IF s = "ok"
                   THEN /\ unacked' = Remove(unacked, tag)
                        /\ log' = [sent EXCEPT ![tag].sid = TRUE,
                                              ![tag].acks = @ + 1]
                        /\ cons' = [cons EXCEPT !.pc = "consuming", !.cur = 0]
                        /\ UNCHANGED <<alive, queue>>
                   ELSE /\ more
                        /\ settle_conn_lost(s, [sent EXCEPT ![tag].sid = TRUE])
              [] o = "rest_error" ->
                   IF s = "ok"
                   THEN /\ unacked' = Remove(unacked, tag)
                        /\ log' = [sent EXCEPT ![tag].nacks = @ + 1]
                        /\ cons' = [cons EXCEPT !.pc = "consuming", !.cur = 0]
                        /\ UNCHANGED <<alive, queue>>
                   ELSE /\ more
                        /\ settle_conn_lost(s, sent)
              [] OTHER ->
                   /\ s = "ok"
                   /\ consumer_uncaught(cons)
                   /\ log' = sent
                   /\ UNCHANGED <<queue, unacked>>
    /\ UNCHANGED <<ackVars, callVars, msgs>>

---------------------------------------------------------------------------
(* Bus publisher, step by step: one call publish_to_exchange(key, sub_key, data) *)

\* the channel name every handler passes as `key`
SOURCE == "twilio"
\* event types passed as `sub_key` (receive_sms, browser_queue_outgoing_sms)
SubKeys == {"sms.incoming", "sms.outgoing"}
\* where the call runs: the Thread started by receive_sms, or the request
\* thread of a handler that calls publish_to_exchange directly
Contexts == {"thread", "request"}

\* headers={"x-retry-count": 0}
RetryCountInit == 0
\* delivery_mode=2
PersistentDeliveryMode == 2

\* Python values of payload fields: str and None
PyStr(x) == [py |-> "str", v |-> x]
PyNone == [py |-> "None", v |-> ""]
PyValues == {PyStr("hi"), PyStr("null"), PyStr("sms.incoming"), PyNone}

\* a payload: a dict, kept as its items in insertion order
PayloadKeys == {"type", "body", "From"}
DictKeys(d) == {d[i][1] : i \in 1..Len(d)}
Payloads ==
    {d \in UNION {[1..n -> PayloadKeys \X PyValues] : n \in 0..MaxFields} :
        \A i, j \in 1..Len(d) : d[i][1] = d[j][1] => i = j}

\* d[k], for a key of the dict
DictGet(d, k) == LET i == CHOOSE i \in 1..Len(d) : d[i][1] = k IN d[i][2]

\* {**d, k: v}: the value of an existing key is replaced where it stands, a
\* new key goes to the end
DictMerge(d, k, v) ==
    IF k \in DictKeys(d)
    THEN [i \in 1..Len(d) |-> IF d[i][1] = k THEN <<k, v>> ELSE d[i]]
    ELSE Append(d, <<k, v>>)

\* json.dumps of one value: a quoted string, or null
json_value(x) == IF x.py = "None" THEN "null" ELSE "\"" \o x.v \o "\""

\* json.dumps(dict): the members of the JSON object, name and value as text
json_dumps(d) ==
    [i \in 1..Len(d) |-> <<json_value(PyStr(d[i][1])), json_value(d[i][2])>>]

\* json.loads of one value, as a consumer of the message reads it
json_loads_value(text) == CHOOSE x \in PyValues \cup {PyStr(k) : k \in PayloadKeys \cup SubKeys} :
                              json_value(x) = text

\* json.loads of the body: the dict a consumer of the message sees
json_loads(body) ==
    [i \in 1..Len(body) |-> <<json_loads_value(body[i][1]).v,
                              json_loads_value(body[i][2])>>]

\* body=json.dumps({**data, "type": sub_key}).encode()
PublishBodyKeepsType(sub_key, data) ==
    json_dumps(IF "type" \in DictKeys(data) THEN data
               ELSE DictMerge(data, "type", PyStr(sub_key)))
PublishBody(sub_key, data) == json_dumps(DictMerge(data, "type", PyStr(sub_key)))

\* routing_key=f"source.{key}.{sub_key}"
PublishRoutingKey(key, sub_key) == "source." \o key \o "." \o sub_key

\* what basic_publish hands to the exchange
PublishedMessage(key, sub_key, data) ==
    [routing_key   |-> PublishRoutingKey(key, sub_key),
     body          |-> PublishBody(sub_key, data),
     retry_count   |-> RetryCountInit,
     delivery_mode |-> PersistentDeliveryMode]

CallIdle == [pc |-> "idle", ctx |-> "thread", key |-> SOURCE,
             sub_key |-> "sms.incoming", data |-> <<>>, opened |-> 0,
             declared |-> 0, published |-> 0, closed |-> 0, fault |-> "none"]

\* a handler calls publish_to_exchange(key, sub_key, data)
publish_call_begin(ctx, key, sub_key, data) ==
    /\ alive
    /\ call.pc = "idle"
    /\ call' = [call EXCEPT !.pc = "connect", !.ctx = ctx, !.key = key,
                            !.sub_key = sub_key, !.data = data]
    /\ UNCHANGED <<alive, exchange, ackVars, consVars>>

\* except AMQPConnectionError: sys.exit(1) on a forced shutdown, terminate()
\* otherwise. SystemExit ends the Thread of receive_sms and leaves the process
\* running; raised in a request thread it reaches the WSGI server, where it
\* ends the worker or only the request, depending on the worker class
publish_call_conn_error(kind) ==
    IF kind = "forced"
    THEN /\ call' = [call EXCEPT !.pc = "exited", !.fault = kind]
         /\ IF call.ctx = "thread" THEN UNCHANGED alive
                                   ELSE alive' \in BOOLEAN
    ELSE /\ call' = [call EXCEPT !.pc = "killed", !.fault = kind]
         /\ alive' = FALSE

\* except AMQPChannelError: logged, swallowed, the call returns
publish_call_chan_error_fatal ==
    /\ call' = [call EXCEPT !.pc = "killed", !.fault = "chan"]
    /\ alive' = FALSE
publish_call_chan_error ==
    /\ call' = [call EXCEPT !.pc = "returned", !.fault = "chan"]
    /\ UNCHANGED alive

\* connection = pika.BlockingConnection(parameters); connection.channel()
publish_call_connect(o) ==
    /\ alive
    /\ call.pc = "connect"
    /\ IF o = "ok"
       THEN /\ call' = [call EXCEPT !.pc = "declare", !.opened = @ + 1]
            /\ UNCHANGED alive
       ELSE publish_call_conn_error(o)
    /\ UNCHANGED <<exchange, ackVars, consVars>>

\* channel.exchange_declare(exchange_type="topic", durable=True)
publish_call_exchange_declare(o) ==
    /\ alive
    /\ call.pc = "declare"
    /\ CASE o = "ok" -> /\ call' = [call EXCEPT !.pc = "publish", !.declared = @ + 1]
                        /\ UNCHANGED alive
         [] o = "chan" -> publish_call_chan_error
         [] OTHER -> publish_call_conn_error(o)
    /\ UNCHANGED <<exchange, ackVars, consVars>>

\* channel.basic_publish(...)
publish_call_basic_publish(o) ==
    /\ alive
    /\ call.pc = "publish"
    /\ CASE o = "ok" ->
              /\ exchange' = Append(exchange,
                    PublishedMessage(call.key, call.sub_key, call.data))
              /\ call' = [call EXCEPT !.pc = "close", !.published = @ + 1]
              /\ UNCHANGED alive
         [] o = "chan" -> publish_call_chan_error /\ UNCHANGED exchange
         [] OTHER -> publish_call_conn_error(o) /\ UNCHANGED exchange
    /\ UNCHANGED <<ackVars, consVars>>

\* connection.close(), and the call returns
publish_call_close ==
    /\ alive
    /\ call.pc = "close"
    /\ call' = [call EXCEPT !.pc = "returned", !.closed = @ + 1]
    /\ UNCHANGED <<alive, exchange, ackVars, consVars>>

---------------------------------------------------------------------------
(* Specifications *)

Init ==
    /\ now = 0
    /\ alive = TRUE
    /\ ackStore = [k \in Keys |-> NoKey]
    /\ nextId = 1
    /\ req = [c \in Ids |-> [pc |-> "idle", start |-> 0, ack_status |-> TRUE,
                             out |-> "none", resp |-> "none"]]
    /\ pub = [c \in Ids |-> PubIdle]
    /\ bus = {}
    /\ ack = [a \in Callers |-> [pc |-> "idle", id |-> NoKey, res |-> 0,
                                 saw |-> FALSE, del |-> FALSE, early |-> FALSE,
                                 retEarly |-> FALSE, late |-> FALSE,
                                 seq |-> FALSE]]
    /\ cons = ConsIdle
    /\ queue = <<>>
    /\ unacked = <<>>
    /\ msgs = <<>>
    /\ log = [t \in Tags |-> [delivered |-> FALSE, redelivered |-> FALSE,
                              parsed |-> FALSE, sms_calls |-> 0, twilio |-> 0,
                              sid |-> FALSE, acks |-> 0, nacks |-> 0,
                              requeue |-> FALSE]]
    /\ call = CallIdle
    /\ exchange = <<>>

\* the steps of the worker that serves the requests with ids in S, of its
\* publish threads, of the /acknowledge callers and of the clock
BridgeNext(S) ==
    \/ \E c \in S : receive_sms_create(c)
    \/ \E c \in S : receive_sms_start_thread(c)
    \/ \E c \in S : receive_sms_start_wait(c)
    \/ \E c \in S : receive_sms_loop_check(c)
    \/ \E c \in S : receive_sms_poll(c)
    \/ \E c \in S : receive_sms_timeout(c)
    \/ \E c \in S : publish_to_exchange(c)
    \/ \E c \in S, f \in PublishFaults : publish_to_exchange_fails(c, f)
    \/ \E a \in Callers, d \in AckData : groupme_acknowledge(a, d)
    \/ \E a \in Callers : groupme_acknowledge_delete(a)
    \/ Tick

\* one inbound SMS and the /acknowledge calls around it
Next == BridgeNext({1})

Spec == Init /\ [][Next]_vars

\* every inbound SMS of Ids, concurrently
WideNext == BridgeNext(Ids)

WideSpec == Init /\ [][WideNext]_vars

\* the first two inbound SMS, served concurrently, their publish threads
\* (which reach the bus) and the /acknowledge calls for their ids
Pair == {1, 2}

PairNext ==
    \/ \E c \in Pair : receive_sms_create(c)
    \/ \E c \in Pair : receive_sms_start_thread(c)
    \/ \E c \in Pair : receive_sms_start_wait(c)
    \/ \E c \in Pair : receive_sms_loop_check(c)
    \/ \E c \in Pair : receive_sms_poll(c)
    \/ \E c \in Pair : receive_sms_timeout(c)
    \/ \E c \in Pair : publish_to_exchange(c)
    \/ \E a \in Callers, c \in Pair : groupme_acknowledge(a, [json |-> TRUE, id |-> c])
    \/ \E a \in Callers : groupme_acknowledge_delete(a)
    \/ Tick

PairSpec == Init /\ [][PairNext]_vars

ConsumerNext ==
    \/ \E k \in RoutingKeys, b \in Bodies : broker_enqueue(k, b)
    \/ broker_deliver
    \/ \E o \in {"ok"} \cup ConnErrors : consumer_connect(o)
    \/ \E o \in {"ok", "chan"} \cup ConnErrors : consumer_exchange_declare(o)
    \/ \E o \in {"ok", "inequivalent", "closed"} \cup ConnErrors :
          consumer_queue_declare(o)
    \/ \E o \in {"ok", "closed"} \cup ConnErrors : consumer_queue_bind(o)
    \/ consumer_basic_qos
    \/ consumer_basic_consume
    \/ \E k \in ConnErrors : consumer_conn_lost(k)
    \/ consumer_finally
    \/ \E s \in SettleOutcomes : process_check_key(s)
    \/ \E s \in SettleOutcomes : process_parse(s)
    \/ \E o \in TwilioOutcomes, s \in SettleOutcomes : process_send(o, s)

ConsumerSpec == Init /\ [][ConsumerNext]_vars

\* scheduling: the consumer thread runs its finally block and its next connection
\* attempt whenever it stands before them (followed over NumLoopMsgs messages)
FairConsumerSpec ==
    /\ Init
    /\ [][ConsumerNext /\ Len(msgs') <= NumLoopMsgs]_vars
    /\ WF_vars(consumer_finally)
    /\ WF_vars(\E o \in {"ok"} \cup ConnErrors : consumer_connect(o))

PublishNext ==
    \/ \E ctx \in Contexts, sk \in SubKeys, d \in Payloads :
          publish_call_begin(ctx, SOURCE, sk, d)
    \/ \E o \in {"ok"} \cup ConnErrors : publish_call_connect(o)
    \/ \E o \in {"ok", "chan"} \cup ConnErrors : publish_call_exchange_declare(o)
    \/ \E o \in {"ok", "chan"} \cup ConnErrors : publish_call_basic_publish(o)
    \/ publish_call_close

\* one call of publish_to_exchange, whatever its arguments and its thread
PublishSpec == Init /\ [][PublishNext]_vars


\* scheduling: a request thread that can take a step eventually takes it, and
\* the wall clock keeps advancing while a wait depends on it
FairSpec ==
    /\ Spec
    /\ WF_vars(Tick)
    /\ \A c \in Ids :
         WF_vars(receive_sms_start_wait(c) \/ receive_sms_loop_check(c)
                 \/ receive_sms_poll(c) \/ receive_sms_timeout(c))


---------------------------------------------------------------------------
(* Claims *)

\* some complete(c) call was invoked before the deadline of the wait on c
AckedInTime(c) == \E a \in Callers : ack[a].id = c /\ ack[a].early

\* C1: the wait on c returns COMPLETED iff complete(c) was invoked before the
\* wait's deadline elapsed; it never returns COMPLETED when complete(c) was
\* never invoked, and never TIMED_OUT when a complete(c) returned in time.
C1_CompletedIffAcked ==
    \A c \in Ids : req[c].pc = "done" =>
        /\ req[c].out = "COMPLETED" <=> AckedInTime(c)
        /\ req[c].out = "COMPLETED" =>
              \E a \in Callers : ack[a].id = c /\ ack[a].pc # "idle"
        /\ (\E a \in Callers : ack[a].id = c /\ ack[a].pc = "done"
                               /\ ack[a].retEarly)
              => req[c].out # "TIMED_OUT"

\* C2: with no completion signal for c before the deadline, the wait returns
\* TIMED_OUT, the record of c is absent when it returns, and every later
\* complete(c) answers 404.
C2_NoSignalTimesOut ==
    \A c \in Ids : (req[c].pc = "done" /\ ~AckedInTime(c)) =>
        /\ req[c].out = "TIMED_OUT"
        /\ ~redis_get(ackStore, c)
        /\ \A a \in Callers :
              (ack[a].id = c /\ ack[a].late /\ ack[a].pc = "done")
                 => ack[a].res = 404

\* a complete(c) call that began while the wait on c was still open has ended,
\* no other complete(c) call is under way, and the wait has ended too
RaceOver(c) ==
    /\ req[c].pc = "done"
    /\ \E a \in Callers : ack[a].id = c /\ ack[a].pc = "done" /\ ~ack[a].late
    /\ \A a \in Callers : ack[a].id = c => ack[a].pc = "done"

\* C3: when complete(c) races with the wait on c, the waiter ends with exactly
\* one of COMPLETED (success body) and TIMED_OUT (500), and the record of c is
\* absent once both have finished.
C3_RaceOneOutcome ==
    \A c \in Ids : RaceOver(c) =>
        /\ req[c].out \in {"COMPLETED", "TIMED_OUT"}
        /\ req[c].resp = "twiml" <=> req[c].out = "COMPLETED"
        /\ req[c].resp = "500" <=> req[c].out = "TIMED_OUT"
        /\ ~redis_get(ackStore, c)

C3_Witness ==
    \E c \in Ids : RaceOver(c) /\ req[c].out = "TIMED_OUT"
                   /\ \E a \in Callers : ack[a].id = c /\ ack[a].res = 200

\* C4: no complete(c) call returns ACK_RECEIVED (200) while the waiter of c
\* takes the timeout path and reports TIMED_OUT.
C4_SingleSignal ==
    \A c \in Ids, a \in Callers :
        ~(ack[a].id = c /\ ack[a].res = 200 /\ req[c].out = "TIMED_OUT")

\* C5: a complete(c) call made after another complete(c) call has returned
\* answers 404, whatever the first call answered, and does not change the store.
C5_SecondCallUnknown ==
    /\ [](\A a \in Callers : ack[a].seq =>
            ack[a].pc = "done" /\ ack[a].res = 404 /\ ~ack[a].del)
    /\ [][\A a \in Callers :
            (ack[a].pc = "idle" /\ ack'[a].pc # "idle" /\ ack'[a].seq)
               => ackStore' = ackStore]_vars

C5_Witness ==
    \E a, b \in Callers :
        /\ ack[a].seq /\ ack[a].pc = "done" /\ ack[a].res = 404
        /\ ack[b].id = ack[a].id /\ ack[b].res = 200

C8_WaitReturns ==
    \A c \in Ids : (req[c].pc = "check") ~> (req[c].pc = "done")

\* C8, amended: no poll is begun once the deadline has elapsed, and every wait
\* that was started eventually returns unless the worker process is terminated.
C8_WaitReturnsWhileAlive ==
    /\ \A c \in Ids : (req[c].pc = "check") ~> (req[c].pc = "done" \/ ~alive)
    /\ [][\A c \in Ids :
            (req[c].pc = "check" /\ req'[c].pc = "poll")
               => now - req[c].start < REDIS_ACK_EXPIRATION_S]_vars

C8_Witness ==
    \E c \in Ids : req[c].pc = "done" /\ pub[c].pc \in {"lost", "exited"}
                   /\ \A a \in Callers : ack[a].id # c

\* C9: the consumer has at most one message in flight; while the callback
\* handles a message (up to and during send_sms) that message is the only
\* unsettled delivery of the consumer.
C9_OneInFlight ==
    /\ Len(unacked) <= 1
    /\ cons.pc \in {"parse", "send"} => unacked = <<cons.cur>>

C9_Witness == cons.pc = "send" /\ queue # <<>> /\ unacked = <<cons.cur>>

\* message t was delivered and the broker holds it no more
Dropped(t) ==
    /\ log[t].delivered
    /\ \A i \in 1..Len(unacked) : unacked[i] # t
    /\ \A i \in 1..Len(queue) : queue[i] # t

\* C10: a message whose routing key is not SMS_OUTGOING_KEY is never parsed
\* and never passed to send_sms; it leaves the queue by one reject without
\* requeue.
C10_MismatchNeverSent ==
    \A t \in 1..Len(msgs) : msgs[t].key # SMS_OUTGOING_KEY =>
        /\ cons.cur # t
        /\ ~log[t].parsed
        /\ log[t].sms_calls = 0 /\ log[t].twilio = 0
        /\ log[t].acks = 0 /\ ~log[t].requeue
        /\ log[t].nacks = IF Dropped(t) THEN 1 ELSE 0

C10_Witness ==
    \E t \in 1..Len(msgs) : msgs[t].key # SMS_OUTGOING_KEY /\ log[t].nacks = 1

\* message t carries the bound routing key and a body of one of the shapes B
Outgoing(t, B) == msgs[t].key = SMS_OUTGOING_KEY /\ msgs[t].body \in B

\* C11: for a valid envelope under the outbound key send_sms is invoked exactly
\* once; when it returned a sid the message is acknowledged once, is gone from
\* the queue and is not delivered to this consumer again.
C11_ValidSentOnce ==
    \A t \in 1..Len(msgs) : Outgoing(t, {"valid"}) =>
        /\ log[t].sms_calls <= 1
        /\ Dropped(t) => log[t].sms_calls = 1
        /\ log[t].sid => Dropped(t) /\ log[t].acks = 1 /\ log[t].nacks = 0

\* C12: an envelope without recipient or body, or one that cannot be read, is
\* never passed to send_sms; once the callback has handled it, it is rejected
\* once without requeue and the broker does not hold it any more.
C12_PoisonRejected ==
    \A t \in 1..Len(msgs) :
        Outgoing(t, {"no_recipient", "no_body", "bad_json", "not_object"}) =>
            /\ log[t].sms_calls = 0
            /\ log[t].acks = 0 /\ ~log[t].requeue
            /\ (log[t].parsed /\ cons.cur # t) =>
                  Dropped(t) /\ log[t].nacks = 1

\* C13: send_sms runs at most once per message; a message whose send_sms
\* returned no sid is rejected without requeue and never acknowledged.
C13_FailedNotRetried ==
    \A t \in 1..Len(msgs) :
        /\ log[t].sms_calls <= 1
        /\ ~log[t].requeue
        /\ log[t].acks > 0 => log[t].sid
        /\ (log[t].twilio > 0 /\ ~log[t].sid /\ cons.cur # t /\ cons.pc # "dead")
              => Dropped(t) /\ log[t].nacks = 1 /\ log[t].acks = 0

\* C14: every message that publish_to_exchange hands to the exchange has the
\* routing key source.<key>.<sub_key>, a JSON body that reads back as the
\* payload with "type" set to sub_key and every other field unchanged, the
\* header x-retry-count = 0 and the persistent delivery mode.
C14_WireFormat ==
    \A i \in 1..Len(exchange) :
        LET m == exchange[i]
            d == json_loads(m.body)
        IN  /\ m.routing_key = "source." \o call.key \o "." \o call.sub_key
            /\ DictKeys(d) = DictKeys(call.data) \cup {"type"}
            /\ Len(d) = Cardinality(DictKeys(d))
            /\ DictGet(d, "type") = PyStr(call.sub_key)
            /\ \A k \in DictKeys(call.data) \ {"type"} :
                  DictGet(d, k) = DictGet(call.data, k)
            /\ m.retry_count = 0
            /\ m.delivery_mode = 2

C14_Witness ==
    /\ Len(exchange) = 1
    /\ "type" \in DictKeys(call.data)
    /\ DictGet(call.data, "type") = PyStr("hi")
    /\ \E k \in DictKeys(call.data) : DictGet(call.data, k) = PyNone

\* C15: a channel-level error in publish_to_exchange is swallowed: the call
\* returns, the process keeps running and no message reached the exchange.
C15_ChannelErrorSwallowed ==
    call.fault = "chan" =>
        /\ call.pc = "returned"
        /\ alive
        /\ call.published = 0 /\ exchange = <<>>

C15_Witness == call.fault = "chan" /\ call.declared = 1 /\ call.pc = "returned"

\* C16: after a forced shutdown or an access refusal met by
\* publish_to_exchange the process is terminated, in whichever thread it ran.
C16_PublisherFatalKills ==
    call.fault \in {"forced", "refused"} => ~alive

\* C17: after a forced shutdown or an access refusal met by the consumer the
\* process is terminated, and the consumer does not connect again.
C17_ConsumerFatalKills ==
    cons.err \in {"forced", "refused"} =>
        /\ ~alive
        /\ cons.pc \in {"killed", "finally", "dead"}

\* C18: the consumer leaves its loop only by the exit that terminates the
\* process: while the process is alive the consumer thread has not ended.
C18_ConsumerNeverStops ==
    alive => cons.pc \in {"connect", "exchange", "queue", "bind", "qos",
                          "consume", "consuming", "parse", "send", "finally"}
             /\ (cons.pc = "finally" => cons.then = "loop")

\* C19: after a connection error other than forced shutdown and access refusal
\* the consumer's next step closes the connection and stands at CONNECTING, with
\* no step in between, and it then makes a new connection attempt.
C19_ReconnectAfterError ==
    /\ [](cons.err = "other" /\ cons.pc = "finally" => cons.then = "loop")
    /\ [][(cons.pc = "finally" /\ cons.err = "other" /\ cons' # cons)
             => cons'.pc = "connect" /\ ~cons'.conn /\ ~cons'.chan]_vars
    /\ (cons.pc = "finally" /\ cons.err = "other") ~> (cons.pc = "connect")
    /\ (cons.pc = "connect") ~> (cons.pc # "connect")

C19_Witness ==
    /\ cons.pc = "exchange" /\ cons.conn
    /\ \E t \in 1..Len(msgs) : log[t].redelivered

\* C20: when queue_declare meets a queue with other attributes the process is
\* terminated: the consumer never consumes on that connection and takes no
\* further step.
C20_InequivalentTerminates ==
    /\ [](cons.err = "inequivalent" =>
            ~alive /\ cons.pc = "killed" /\ ~cons.consuming)
    /\ [][cons.err = "inequivalent" => cons' = cons /\ unacked' = unacked]_vars

C20_Witness == cons.err = "inequivalent" /\ queue # <<>>

\* C21: the consumer consumes only on a connection on which the exchange was
\* declared, the queue declared and bound, and the prefetch of one set; the
\* broker delivers nothing on a connection whose declare or bind failed.
C21_ConsumingOnlyFromBound ==
    /\ [](cons.pc \in {"consuming", "parse", "send"} => cons.consuming)
    /\ [](cons.consuming =>
            /\ cons.conn /\ cons.chan
            /\ cons.exch /\ cons.qdecl /\ cons.bound
            /\ cons.qos = PrefetchCount)
    /\ [][Len(unacked') > Len(unacked) =>
            cons.exch /\ cons.qdecl /\ cons.bound /\ cons.qos = PrefetchCount]_vars

C21_Witness ==
    /\ cons.consuming /\ cons.bound
    /\ \E t \in 1..Len(msgs) : log[t].redelivered /\ unacked = <<t>>

\* C22: set_ack_event(c) comes before the publish thread of c is started: once
\* the thread exists, or c is on the bus, or a complete(c) call has begun, the
\* record of c has been created, and it is absent only if it expired, was
\* deleted by a complete(c) call or by the timeout path.
C22_RecordBeforePublish ==
    /\ [](\A c \in Ids :
            (\/ pub[c].pc # "none"
             \/ c \in bus
             \/ \E a \in Callers : ack[a].id = c /\ ack[a].pc # "idle")
            => /\ req[c].pc # "idle"
               /\ \/ redis_get(ackStore, c)
                  \/ now >= REDIS_ACK_EXPIRATION_S
                  \/ \E a \in Callers : ack[a].id = c /\ ack[a].del)
    /\ [][\A c \in Ids : (pub[c].pc = "none" /\ pub'[c].pc # "none")
                            => req[c].pc = "lookup"]_vars

C22_Witness ==
    \E c \in Ids, a \in Callers :
        ack[a].id = c /\ ack[a].res = 200 /\ req[c].pc = "start" /\ now = 0

\* C23: a call of publish_to_exchange that returns to its caller has made one
\* exchange declare and one publish, and has closed the connection it opened.
C23_OneDeclarePublishClose ==
    call.pc = "returned" =>
        /\ call.declared = 1
        /\ call.published = 1
        /\ call.closed = 1
        /\ call.opened = call.closed

\* C24: when publish_to_exchange swallowed a channel error (the message of c
\* never reached the bus), receive_sms ends the wait on c with TIMED_OUT and
\* answers 500, never the success body.
C24_LostPublishTimesOut ==
    \A c \in Ids : (pub[c].pc = "lost" /\ req[c].pc = "done") =>
        /\ c \notin bus
        /\ req[c].out = "TIMED_OUT"
        /\ req[c].resp = "500"

\* the handler of c is between set_ack_event and its return
InHandler(c) == req[c].pc \in {"lookup", "start", "check", "poll", "timeout"}

C26_AtMostOneAckReceived ==
    \A c \in Ids : Cardinality({a \in Callers : ack[a].id = c /\ ack[a].res = 200}) <= 1

\* C27: while the wait on c is open (started, deadline not reached) the record
\* of c is in the store unless a complete(c) call deleted it, so expiry never
\* removes it first; and a wait returns COMPLETED only after a complete(c)
\* call deleted the record.
C27_TtlOutlivesWait ==
    \A c \in Ids :
        /\ (Waiting(c) /\ ~\E a \in Callers : ack[a].id = c /\ ack[a].del)
              => redis_get(ackStore, c)
        /\ (req[c].pc = "done" /\ req[c].out = "COMPLETED")
              => \E a \in Callers : ack[a].id = c /\ ack[a].del

\* C28: no message is ever rejected with requeue, and none is acknowledged
\* unless send_sms returned a sid; and every run of the callback that went
\* past the key check and ends with the connection still open has issued
\* exactly one disposition for its message: one acknowledge or one reject.
C28_ExactlyOneDisposition ==
    /\ [](\A t \in 1..Len(msgs) : ~log[t].requeue /\ (log[t].acks > 0 => log[t].sid))
    /\ [][(cons.pc \in {"parse", "send"} /\ cons'.pc \notin {"parse", "send"} /\ cons'.conn)
            => LET t == cons.cur IN
               /\ log'[t].acks + log'[t].nacks = log[t].acks + log[t].nacks + 1
               /\ log'[t].acks = log[t].acks \/ log'[t].nacks = log[t].nacks]_vars

\* C29: the record of an id changes only in a step of the handler of that id,
\* in a step of a complete call for that id, or by its own expiry on a clock
\* tick; and the handler of an id settles its outcome from the record of that
\* id and its own deadline alone.
C29_IdsIndependent ==
    /\ [][\A k \in Ids : ackStore'[k] # ackStore[k] =>
            \/ req'[k] # req[k]
            \/ \E a \in Callers : ack[a].id = k /\ ack'[a] # ack[a]
            \/ now' # now /\ ackStore[k] <= now']_vars
    /\ [][\A c \in Ids : (req[c].pc = "poll" /\ req'[c] # req[c]) =>
            (req'[c].out = "COMPLETED" <=> ~redis_get(ackStore, c))]_vars
    /\ [](\A c \in Ids : req[c].out = "TIMED_OUT" => DeadlineElapsed(c))

C29_Witness ==
    \E c, d \in Ids, a \in Callers :
        /\ c # d
        /\ ack[a].id = c /\ ack[a].del
        /\ redis_get(ackStore, d) /\ req[d].pc \in {"check", "poll"}

====
